---- MODULE Spec2Model ----
(***************************************************************************)
(* Model of the fast debt slots of arc-swap (src/debt/fast.rs).            *)
(*                                                                         *)
(* Slots is a fixed array of DEBT_SLOT_CNT atomic cells shared by all      *)
(* threads; Local is the per-thread rotation offset.  get_debt is modelled *)
(* at the granularity of its atomic operations: one step per               *)
(* compare_exchange, interleaved freely with the steps of other threads.   *)
(* The atomic operations on the cells are taken in one total order (each   *)
(* is one step that reads the latest value of its cell).                   *)
(* Next to the code's run the model carries a reference run of the same   *)
(* operations in which the offset is stored reduced modulo the table size. *)
(***************************************************************************)
EXTENDS Integers, Sequences, FiniteSets, Bags, TLC

\* const DEBT_SLOT_CNT: usize = 8;
DEBT_SLOT_CNT == 8

\* Debt::NONE, the value of a free cell (never a protected address).
NONE == 0

\* Option::None, the "no slot available" result of get_debt.
NoSlot == -1

\* Bounds of the model: threads, addresses, and the number of operations
\* (get_debt calls and releases) started in a behaviour of each specification.
NumThreads == 2
MaxAddr == 2
MaxOps == 3
BusyOps == 3
BusyAddr == 1
ScanOps == 2
FairOps == 2
AnyOps == 2

Threads == 1..NumThreads
Addrs == 1..MaxAddr
\* The addresses newly acquired on the busy table.
BusyAddrs == 1..BusyAddr

\* self.0.len()
len == DEBT_SLOT_CNT
Cells == 0..(len - 1)

VARIABLES
    slots,      \* Slots.0 : the value of each cell
    offset,     \* Local.offset of each thread
    pc,         \* position of each thread: "idle", "loop" (inside get_debt), "done",
                \* "panic" (an index out of the bounds of the array)
    i,          \* the loop variable of get_debt
    ptr,        \* the ptr argument of the running get_debt call
    ret,        \* the value the finished get_debt call returns
    held,       \* the handles each thread holds (returned, unreleased): a bag of <<cell, address>>
    ops,        \* number of operations the threads have started (saturating)
    wpc,        \* position of the writer: "idle", "scan", "done"
    seen,       \* values the running scan has read so far, in index order
    \* history variables
    tried,      \* the compare_exchange attempts of the running call, in order:
                \* <<cell, value before, value after>>
    sawFull,    \* some instant of the running call had every cell occupied
    freeAll,    \* cells free at every instant of the call so far
    occSnap,    \* cells occupied at every instant of the call so far, with their value at its start
    cycle,      \* cells claimed by the thread's latest calls in a row (at most len of
                \* them) of which each but the first started on an all-free table
    prot,       \* handles held since before the running scan started
    quiet,      \* no thread has taken a step since the running scan started
    off0,       \* the offset the running call read at its entry
    won,        \* the thread has had a get_debt call succeed
    \* the reference run: the same operations with the offset stored modulo len
    refSlots,   \* the table of the reference
    refOffset,  \* the offset of each thread in the reference
    refRet      \* the value the finished call returns in the reference

vars == <<slots, offset, pc, i, ptr, ret, held, ops, wpc, seen,
          tried, sawFull, freeAll, occSnap, cycle, prot, quiet,
          off0, won, refSlots, refOffset, refRet>>

\* The state of the reference run.
refVars == <<refSlots, refOffset, refRet>>

----------------------------------------------------------------------------
\* Helpers

Min(a, b) == IF a < b THEN a ELSE b

Occupied(s) == {c \in Cells : s[c] # NONE}

Full(s) == Occupied(s) = Cells

Restrict(f, S) == [c \in S |-> f[c]]

EmptyFn == [c \in {} |-> NONE]

\* The handles of all threads, and those on one cell.
AllHeld == UNION {BagToSet(held[t]) : t \in Threads}

RECURSIVE SumOver(_, _)
SumOver(f, S) ==
    IF S = {} THEN 0
    ELSE LET x == CHOOSE y \in S : TRUE IN f[x] + SumOver(f, S \ {x})

\* Faulty variants of compare_exchange: an unconditional swap; a success that
\* stores nothing; a store that also happens when the comparison fails.
CompareExchangeSwap(v, current, new) == <<TRUE, new>>

CompareExchangeNoStore(v, current, new) ==
    IF v = current THEN <<TRUE, v>> ELSE <<FALSE, v>>

CompareExchangeDirty(v, current, new) ==
    IF v = current THEN <<TRUE, new>> ELSE <<FALSE, new>>

\* AtomicUsize::compare_exchange(current, new, ..) on a cell holding v:
\* <<is_ok, value of the cell afterwards>>
CompareExchange(v, current, new) ==
    IF v = current THEN <<TRUE, new>> ELSE <<FALSE, v>>

\* Faulty variant of the index: the sum is not reduced modulo len.
SlotIndexNoMod(k, off) == k + off

\* Faulty variant of the index: the loop variable is left out.
SlotIndexStuck(k, off) == off % len

\* let i = (i + offset) % len;
SlotIndex(k, off) == (k + off) % len

\* Faulty variants of the loop range: one iteration short, one too many.
LoopRangeShort == 0..(len - 2)

LoopRangeLong == 0..len

\* for i in 0..len
LoopRange == 0..(len - 1)

\* Faulty variant of the offset update: the offset stays on the claimed cell.
NextOffsetSame(idx) == idx

\* local.offset.set(i + 1);
NextOffset(idx) == idx + 1

\* Faulty variant of the update: the offset is set after every attempt.
OffsetAfterAlways(ok, idx, off) == NextOffset(idx)

\* if got_it { local.offset.set(i + 1); .. }: the offset after an attempt on
\* cell idx, off being the offset before it.
OffsetAfter(ok, idx, off) == IF ok THEN NextOffset(idx) ELSE off

\* self.0[i]: the bounds check of the array indexing.
InBounds(idx) == idx \in Cells

\* The reference acquire: the offset is stored reduced modulo len, and the
\* scan starts at it.
RefSlotIndex(k, off) == (k + off) % len

RefNextOffset(idx) == (idx + 1) % len

\* Faulty variant of the scan order: the cells are walked from the last to the first.
ScanIndexReverse(n) == len - 1 - n

\* self.0.iter(): the n-th item (from 0) is the cell of index n.
ScanIndex(n) == n

----------------------------------------------------------------------------
\* Initial states

\* What every initial state has: no call or scan is running.
InitRest ==
    /\ pc = [t \in Threads |-> "idle"]
    /\ i = [t \in Threads |-> 0]
    /\ ptr = [t \in Threads |-> NONE]
    /\ ret = [t \in Threads |-> NoSlot]
    /\ ops = 0
    /\ wpc = "idle"
    /\ seen = << >>
    /\ tried = [t \in Threads |-> << >>]
    /\ sawFull = [t \in Threads |-> FALSE]
    /\ freeAll = [t \in Threads |-> {}]
    /\ occSnap = [t \in Threads |-> EmptyFn]
    /\ cycle = [t \in Threads |-> << >>]
    /\ prot = {}
    /\ quiet = FALSE
    /\ off0 = [t \in Threads |-> 0]
    /\ refRet = [t \in Threads |-> NoSlot]

\* Slots::default() and Local::default(): every cell NONE, every offset 0.
Init ==
    /\ slots = [c \in Cells |-> NONE]
    /\ offset = [t \in Threads |-> 0]
    /\ held = [t \in Threads |-> EmptyBag]
    /\ won = [t \in Threads |-> FALSE]
    /\ refSlots = [c \in Cells |-> NONE]
    /\ refOffset = [t \in Threads |-> 0]
    /\ InitRest

\* The state the table is in after thread 1 made k = len - 1 acquisitions of
\* one address (the last of Addrs) in a row on the fresh table, none
\* released: they took cells 0..k-1 in order and left the offset at k.  One
\* cell is still free.
InitBusy ==
    LET k == len - 1
        a == MaxAddr
    IN  /\ slots = [c \in Cells |-> IF c < k THEN a ELSE NONE]
        /\ offset = [t \in Threads |-> IF t = 1 THEN k ELSE 0]
        /\ held = [t \in Threads |->
                     IF t = 1 THEN SetToBag({<<c, a>> : c \in 0..(k - 1)}) ELSE EmptyBag]
        /\ won = [t \in Threads |-> t = 1]
        /\ refSlots = [c \in Cells |-> IF c < k THEN a ELSE NONE]
        /\ refOffset = [t \in Threads |-> IF t = 1 THEN RefNextOffset(k - 1) ELSE 0]
        /\ InitRest

\* Any table content and any offset of thread 1.  Thread 1 has made o
\* acquire-then-release cycles alone on the fresh table, which left its offset
\* at o; then thread 2 has acquired the cells up to the last cell of S in a
\* row (with the last of Addrs) and released those outside S.
InitAny ==
    \E S \in SUBSET Cells, o \in 0..len :
        LET a == MaxAddr
            top == CHOOSE c \in S : \A d \in S : d <= c
            off == [t \in Threads |->
                      IF t = 1 THEN o
                      ELSE IF t = 2 /\ S # {} THEN NextOffset(top) ELSE 0]
        IN  /\ slots = [c \in Cells |-> IF c \in S THEN a ELSE NONE]
            /\ offset = off
            /\ held = [t \in Threads |->
                         IF t = 2 THEN SetToBag({<<c, a>> : c \in S}) ELSE EmptyBag]
            /\ won = [t \in Threads |-> off[t] # 0]
            /\ refSlots = [c \in Cells |-> IF c \in S THEN a ELSE NONE]
            /\ refOffset = [t \in Threads |-> off[t] % len]
            /\ InitRest

----------------------------------------------------------------------------
\* History bookkeeping for a step that turns the table into s2.  A call is
\* tracked from its start until its result is taken.

InCall(u) == pc[u] \in {"loop", "done"}

TrackFull(s2) ==
    sawFull' = [u \in Threads |->
                  IF pc[u] = "loop" THEN sawFull[u] \/ Full(s2) ELSE sawFull[u]]

TrackFree(s2) ==
    freeAll' = [u \in Threads |->
                  IF InCall(u) THEN freeAll[u] \ Occupied(s2) ELSE freeAll[u]]

TrackOcc(s2) ==
    occSnap' = [u \in Threads |->
                  IF InCall(u)
                  THEN Restrict(occSnap[u], DOMAIN occSnap[u] \cap Occupied(s2))
                  ELSE occSnap[u]]

----------------------------------------------------------------------------
\* Slots::get_debt

\* Entry of get_debt(ptr, local): let offset = local.offset.get(); the loop starts at i = 0.
GetDebtStart(t, p) ==
    /\ pc[t] = "idle"
    /\ pc' = [pc EXCEPT ![t] = "loop"]
    /\ ptr' = [ptr EXCEPT ![t] = p]
    /\ i' = [i EXCEPT ![t] = 0]
    /\ ops' = Min(ops + 1, MaxOps)
    /\ tried' = [tried EXCEPT ![t] = << >>]
    /\ sawFull' = [sawFull EXCEPT ![t] = Full(slots)]
    /\ freeAll' = [freeAll EXCEPT ![t] = Cells \ Occupied(slots)]
    /\ occSnap' = [occSnap EXCEPT ![t] = Restrict(slots, Occupied(slots))]
    /\ cycle' = [cycle EXCEPT ![t] = IF Occupied(slots) = {} THEN @ ELSE << >>]
    /\ quiet' = FALSE
    /\ off0' = [off0 EXCEPT ![t] = offset[t]]
    /\ UNCHANGED <<slots, offset, ret, held, wpc, seen, prot, won, refVars>>

\* One iteration of the loop: the compare_exchange on cell (i + offset) % len.
\* On success the offset is advanced and the call returns the cell; on failure
\* the loop goes on, and falls out to `None` after the last index.
GetDebtStep(t) ==
    /\ pc[t] = "loop"
    /\ LET idx == SlotIndex(i[t], offset[t])
       IN IF ~InBounds(idx)
          THEN /\ pc' = [pc EXCEPT ![t] = "panic"]
               /\ UNCHANGED <<slots, offset, i, ret, tried, sawFull, freeAll,
                              occSnap, cycle, won, refVars>>
          ELSE LET r == CompareExchange(slots[idx], NONE, ptr[t])
                   s2 == [slots EXCEPT ![idx] = r[2]]
                   ridx == RefSlotIndex(i[t], refOffset[t])
                   rr == CompareExchange(refSlots[ridx], NONE, ptr[t])
               IN /\ slots' = s2
                  /\ tried' = [tried EXCEPT ![t] = Append(@, <<idx, slots[idx], r[2]>>)]
                  /\ TrackFull(s2)
                  /\ TrackFree(s2)
                  /\ TrackOcc(s2)
                  /\ offset' = [offset EXCEPT ![t] = OffsetAfter(r[1], idx, @)]
                  /\ IF r[1]
                     THEN /\ ret' = [ret EXCEPT ![t] = idx]
                          /\ pc' = [pc EXCEPT ![t] = "done"]
                          /\ cycle' = [cycle EXCEPT ![t] =
                                         IF Len(@) = len THEN Append(Tail(@), idx)
                                         ELSE Append(@, idx)]
                          /\ won' = [won EXCEPT ![t] = TRUE]
                          /\ UNCHANGED i
                     ELSE /\ IF i[t] + 1 \in LoopRange
                             THEN /\ i' = [i EXCEPT ![t] = @ + 1]
                                  /\ UNCHANGED <<pc, ret>>
                             ELSE /\ pc' = [pc EXCEPT ![t] = "done"]
                                  /\ ret' = [ret EXCEPT ![t] = NoSlot]
                                  /\ UNCHANGED i
                          /\ UNCHANGED <<cycle, won>>
                  \* the same step of the reference
                  /\ refSlots' = [refSlots EXCEPT ![ridx] = rr[2]]
                  /\ IF rr[1]
                     THEN /\ refOffset' = [refOffset EXCEPT ![t] = RefNextOffset(ridx)]
                          /\ refRet' = [refRet EXCEPT ![t] = ridx]
                     ELSE /\ refRet' = [refRet EXCEPT ![t] = NoSlot]
                          /\ UNCHANGED refOffset
    /\ quiet' = FALSE
    /\ UNCHANGED <<ptr, held, ops, wpc, seen, prot, off0>>

\* The caller receives the result: Some(&self.0[i]) becomes a handle it holds.
GetDebtReturn(t) ==
    /\ pc[t] = "done"
    /\ pc' = [pc EXCEPT ![t] = "idle"]
    /\ held' = [held EXCEPT ![t] =
                  IF ret[t] = NoSlot THEN @ ELSE @ (+) SetToBag({<<ret[t], ptr[t]>>})]
    /\ ret' = [ret EXCEPT ![t] = NoSlot]
    /\ ptr' = [ptr EXCEPT ![t] = NONE]
    /\ i' = [i EXCEPT ![t] = 0]
    /\ tried' = [tried EXCEPT ![t] = << >>]
    /\ sawFull' = [sawFull EXCEPT ![t] = FALSE]
    /\ freeAll' = [freeAll EXCEPT ![t] = {}]
    /\ occSnap' = [occSnap EXCEPT ![t] = EmptyFn]
    /\ quiet' = FALSE
    /\ off0' = [off0 EXCEPT ![t] = 0]
    /\ refRet' = [refRet EXCEPT ![t] = NoSlot]
    /\ UNCHANGED <<slots, offset, ops, wpc, seen, cycle, prot, won, refSlots, refOffset>>

----------------------------------------------------------------------------
\* release(handle): the holder resets its cell to NONE in one atomic store.
Release(t, h) ==
    /\ pc[t] = "idle"
    /\ BagIn(h, held[t])
    /\ LET s2 == [slots EXCEPT ![h[1]] = NONE]
       IN /\ slots' = s2
          /\ TrackFull(s2)
          /\ TrackFree(s2)
          /\ TrackOcc(s2)
    /\ held' = [held EXCEPT ![t] = @ (-) SetToBag({h})]
    /\ ops' = Min(ops + 1, MaxOps)
    /\ prot' = prot \ {h}
    /\ quiet' = FALSE
    /\ refSlots' = [refSlots EXCEPT ![h[1]] = NONE]
    /\ UNCHANGED <<offset, pc, i, ptr, ret, wpc, seen, tried, cycle,
                   off0, won, refOffset, refRet>>

----------------------------------------------------------------------------
\* (&Slots).into_iter(): the writer walks self.0.iter(), loading each cell in index order.

ScanStart ==
    /\ wpc = "idle"
    /\ wpc' = "scan"
    /\ seen' = << >>
    /\ prot' = AllHeld
    /\ quiet' = \A t \in Threads : pc[t] = "idle"
    /\ UNCHANGED <<slots, offset, pc, i, ptr, ret, held, ops,
                   tried, sawFull, freeAll, occSnap, cycle, off0, won, refVars>>

ScanStep ==
    /\ wpc = "scan"
    /\ seen' = Append(seen, slots[ScanIndex(Len(seen))])
    /\ wpc' = IF Len(seen) + 1 = len THEN "done" ELSE "scan"
    /\ UNCHANGED <<slots, offset, pc, i, ptr, ret, held, ops,
                   tried, sawFull, freeAll, occSnap, cycle, prot, quiet,
                   off0, won, refVars>>

ScanEnd ==
    /\ wpc = "done"
    /\ wpc' = "idle"
    /\ seen' = << >>
    /\ prot' = {}
    /\ quiet' = FALSE
    /\ UNCHANGED <<slots, offset, pc, i, ptr, ret, held, ops,
                   tried, sawFull, freeAll, occSnap, cycle, off0, won, refVars>>

----------------------------------------------------------------------------
\* Specifications

AllHandles == Cells \X Addrs

\* Concurrent reader threads on a fresh table, starting at most MaxOps operations in all.
Next ==
    \/ \E t \in Threads, p \in Addrs : ops < MaxOps /\ GetDebtStart(t, p)
    \/ \E t \in Threads : GetDebtStep(t)
    \/ \E t \in Threads : GetDebtReturn(t)
    \/ \E t \in Threads, h \in AllHandles : ops < MaxOps /\ Release(t, h)

Spec == Init /\ [][Next]_vars

\* The same threads on a table that thread 1 has filled but for one cell.
NextBusy ==
    \/ \E t \in Threads, p \in BusyAddrs : ops < BusyOps /\ GetDebtStart(t, p)
    \/ \E t \in Threads : GetDebtStep(t)
    \/ \E t \in Threads : GetDebtReturn(t)
    \/ \E t \in Threads, h \in AllHandles : ops < BusyOps /\ Release(t, h)

SpecBusy == InitBusy /\ [][NextBusy]_vars

\* Reader threads and a writer that scans the table again and again.
NextScan ==
    \/ \E t \in Threads, p \in Addrs : ops < ScanOps /\ GetDebtStart(t, p)
    \/ \E t \in Threads : GetDebtStep(t)
    \/ \E t \in Threads : GetDebtReturn(t)
    \/ \E t \in Threads, h \in AllHandles : ops < ScanOps /\ Release(t, h)
    \/ ScanStart
    \/ ScanStep
    \/ ScanEnd

SpecScan == Init /\ [][NextScan]_vars

\* Reader threads and the scanning writer on the table of SpecBusy.
NextBusyScan ==
    \/ \E t \in Threads, p \in BusyAddrs : ops < ScanOps /\ GetDebtStart(t, p)
    \/ \E t \in Threads : GetDebtStep(t)
    \/ \E t \in Threads : GetDebtReturn(t)
    \/ \E t \in Threads, h \in AllHandles : ops < ScanOps /\ Release(t, h)
    \/ ScanStart
    \/ ScanStep
    \/ ScanEnd

SpecBusyScan == InitBusy /\ [][NextBusyScan]_vars

\* One thread alone that only acquires.
NextFill ==
    \/ \E p \in Addrs : GetDebtStart(1, p)
    \/ GetDebtStep(1)
    \/ GetDebtReturn(1)

SpecFill == Init /\ [][NextFill]_vars

\* Threads that only acquire (address 1), one call at a time, and a writer
\* that scans while no call is running.
NextQuiet ==
    \/ \E t \in Threads :
          /\ wpc = "idle"
          /\ \A u \in Threads : pc[u] = "idle"
          /\ GetDebtStart(t, 1)
    \/ \E t \in Threads : GetDebtStep(t)
    \/ \E t \in Threads : GetDebtReturn(t)
    \/ (\A u \in Threads : pc[u] = "idle") /\ ScanStart
    \/ ScanStep
    \/ ScanEnd

SpecQuiet == Init /\ [][NextQuiet]_vars

\* One thread alone in acquire-then-release cycles.
NextCycle ==
    \/ \E p \in Addrs : held[1] = EmptyBag /\ GetDebtStart(1, p)
    \/ GetDebtStep(1)
    \/ GetDebtReturn(1)
    \/ \E h \in AllHandles : Release(1, h)

SpecCycle == Init /\ [][NextCycle]_vars

\* The threads of SpecBusy, each of which keeps taking the steps of its call.
NextFair ==
    \/ \E t \in Threads, p \in BusyAddrs : ops < FairOps /\ GetDebtStart(t, p)
    \/ \E t \in Threads : GetDebtStep(t)
    \/ \E t \in Threads : GetDebtReturn(t)
    \/ \E t \in Threads, h \in AllHandles : ops < FairOps /\ Release(t, h)

SpecFair ==
    /\ InitBusy
    /\ [][NextFair]_vars
    /\ \A t \in Threads : WF_vars(GetDebtStep(t))

\* One call of thread 1 on any table and from any offset, during which
\* thread 2 may release one of its cells.
NextAny ==
    \/ \E p \in Addrs : held[1] = EmptyBag /\ ops < AnyOps /\ GetDebtStart(1, p)
    \/ GetDebtStep(1)
    \/ GetDebtReturn(1)
    \/ \E h \in AllHandles : pc[1] = "loop" /\ ops < AnyOps /\ Release(2, h)

SpecAny == InitAny /\ [][NextAny]_vars

----------------------------------------------------------------------------
\* Properties

Range(q) == {q[k] : k \in 1..Len(q)}

\* The claims thread t has on cell c: the handles it holds and the result it
\* has not yet taken.
ClaimsBy(t, c) ==
    LET hs == {h \in BagToSet(held[t]) : h[1] = c}
    IN SumOver([h \in hs |-> CopiesIn(h, held[t])], hs)
         + (IF pc[t] = "done" /\ ret[t] = c THEN 1 ELSE 0)

ClaimsOn(c) == SumOver([t \in Threads |-> ClaimsBy(t, c)], Threads)

TotalHeld == SumOver([t \in Threads |-> BagCardinality(held[t])], Threads)

\* The cells the running call of t found occupied at its attempt on them.
FoundOccupied(t) == {e[1] : e \in {x \in Range(tried[t]) : x[2] # NONE}}

\* The attempts of the running call of t that changed a cell.
Writes(t) == {e \in Range(tried[t]) : e[2] # e[3]}

\* C1 -- Mutual exclusion: in every interleaving of get_debt and release no
\* cell has two unreleased claims (handles held or results being returned),
\* and every occupied cell has exactly one.
C1_MutualExclusion ==
    \A c \in Cells :
        /\ ClaimsOn(c) <= 1
        /\ slots[c] # NONE => ClaimsOn(c) = 1

\* Two threads raced: one has just claimed a cell after failing on a cell the
\* other has a claim on.
C1_Witness ==
    \E t \in Threads, u \in Threads :
        /\ t # u
        /\ pc[t] = "done" /\ ret[t] # NoSlot
        /\ Len(tried[t]) >= 2
        /\ ClaimsBy(u, tried[t][1][1]) = 1

\* C2 -- Writer visibility: a handle returned before the scan started and not
\* released before the scan ended has its address among the values the scan read.
C2_WriterSeesHeld ==
    wpc = "done" =>
        \A h \in prot : \E k \in 1..Len(seen) : seen[k] = h[2]

\* A finished scan with a protected handle, during which the table changed
\* (some value read is no longer the cell's value).
C2_Witness ==
    /\ wpc = "done"
    /\ prot # {}
    /\ \E k \in 1..Len(seen) : seen[k] # slots[k - 1]

\* C3 -- Exhaustion: a get_debt call during which every cell stayed occupied
\* (all occupied at its start, none released) returns None, and every cell
\* holds the value it held when the call started.
C3_Exhaustion ==
    \A t \in Threads :
        (pc[t] = "done" /\ DOMAIN occSnap[t] = Cells) =>
            /\ ret[t] = NoSlot
            /\ \A c \in Cells : slots[c] = occSnap[t][c]

\* Such a call by a thread whose offset is in the middle of the table.
C3_Witness ==
    \E t \in Threads :
        /\ pc[t] = "done" /\ DOMAIN occSnap[t] = Cells
        /\ ret[t] = NoSlot
        /\ offset[t] \notin {0, len}

\* C4 -- All-or-nothing: a get_debt call that returns a cell has changed that
\* cell from NONE to its ptr and changed no other cell; a call that returns
\* None, or has not yet returned, has changed no cell.
C4_AllOrNothing ==
    \A t \in Threads :
        /\ pc[t] = "loop" => Writes(t) = {}
        /\ pc[t] = "done" =>
              Writes(t) = IF ret[t] = NoSlot THEN {} ELSE {<<ret[t], NONE, ptr[t]>>}

\* Two finished calls at once, one that got a cell and one that got none.
C4_Witness ==
    \E t \in Threads, u \in Threads :
        /\ pc[t] = "done" /\ ret[t] = NoSlot
        /\ pc[u] = "done" /\ ret[u] # NoSlot

\* C5 as stated -- a get_debt call returns None only if at some instant of
\* the call all cells were occupied at once.
C5_FailsOnlyWhenFull ==
    \A t \in Threads :
        (pc[t] = "done" /\ ret[t] = NoSlot) => sawFull[t]

\* C5 amended -- a get_debt call returns None only if it found every cell
\* occupied at the instant of its attempt on that cell.
C5_FailsOnlyWhenEachOccupied ==
    \A t \in Threads :
        (pc[t] = "done" /\ ret[t] = NoSlot) => FoundOccupied(t) = Cells

\* A call that returned None although the table was never full during it.
C5_Witness ==
    \E t \in Threads :
        /\ pc[t] = "done" /\ ret[t] = NoSlot
        /\ ~sawFull[t]
        /\ FoundOccupied(t) = Cells

\* C6 -- Availability: a get_debt call during which some cell stayed free
\* returns a cell, and the cell a call returns is never one that stayed
\* occupied during the call (so with the other len-1 cells occupied it is the
\* released cell).
C6_Availability ==
    \A t \in Threads :
        pc[t] = "done" =>
            /\ ret[t] = NoSlot => freeAll[t] = {}
            /\ ret[t] # NoSlot => ret[t] \notin DOMAIN occSnap[t]

\* A call that scanned past occupied cells to the one released cell, the
\* other len-1 cells being occupied throughout.
C6_Witness ==
    \E t \in Threads :
        /\ pc[t] = "done" /\ ret[t] # NoSlot /\ ret[t] # len - 1
        /\ Cardinality(DOMAIN occSnap[t]) = len - 1
        /\ Len(tried[t]) > 1

\* C7 -- Round-robin: in acquire-then-release cycles of one thread alone, the
\* cells of any len cycles in a row are pairwise distinct, each the cyclic
\* successor of the one before.
C7_RoundRobin ==
    LET q == cycle[1] IN
        /\ \A a \in 1..Len(q), b \in 1..Len(q) : a < b => q[a] # q[b]
        /\ \A a \in 1..(Len(q) - 1) : q[a + 1] = (q[a] + 1) % len

\* len cycles in a row, the first of which started from a non-zero offset.
C7_Witness ==
    /\ Len(cycle[1]) = len
    /\ cycle[1][1] # 0
    /\ pc[1] = "idle" /\ held[1] = EmptyBag

\* C8 -- Occupancy accounting: a scan made while no operation runs reads as
\* many non-NONE cells as there are unreleased handles, and NONE in the rest.
C8_Occupancy ==
    (wpc = "done" /\ quiet) =>
        /\ Cardinality({k \in 1..Len(seen) : seen[k] # NONE}) = TotalHeld
        /\ Cardinality({k \in 1..Len(seen) : seen[k] = NONE}) = len - TotalHeld

\* Such a scan of a partly filled table on which two threads hold handles.
C8_Witness ==
    /\ wpc = "done" /\ quiet
    /\ TotalHeld \in 2..(len - 1)
    /\ \E t \in Threads, u \in Threads :
          t # u /\ held[t] # EmptyBag /\ held[u] # EmptyBag

\* C9 -- Fill-up: when one thread only acquires on a fresh table, its handles
\* are on pairwise distinct cells, and a call returns None exactly when len
\* handles are already held (the first len calls succeed, the next fails).
C9_FillUp ==
    LET n == BagCardinality(held[1])
        cells == {h[1] : h \in BagToSet(held[1])}
    IN /\ Cardinality(cells) = n
       /\ n <= len
       /\ pc[1] = "done" => (ret[1] = NoSlot <=> n = len)

\* The call after len successful ones has returned None.
C9_Witness ==
    /\ pc[1] = "done" /\ ret[1] = NoSlot
    /\ BagCardinality(held[1]) = len
    /\ Len(tried[1]) = len

\* C10 -- Bounded termination: a get_debt call makes at most len
\* compare_exchange attempts, no two on the same cell, and, when the thread
\* keeps taking its steps, every started call returns.
C10_BoundedTermination ==
    /\ [](\A t \in Threads :
            /\ Len(tried[t]) <= len
            /\ Cardinality({e[1] : e \in Range(tried[t])}) = Len(tried[t]))
    /\ \A t \in Threads : (pc[t] = "loop") ~> (pc[t] = "done")

\* A call that needed all len attempts, the last of which succeeded.
C10_Witness ==
    \E t \in Threads :
        /\ pc[t] = "done" /\ ret[t] # NoSlot
        /\ Len(tried[t]) = len

\* Thread t has an unreleased claim of address a on cell c: a handle it
\* holds, or the result of its finished call that it has not yet taken.
HasClaim(t, c, a) ==
    \/ BagIn(<<c, a>>, held[t])
    \/ pc[t] = "done" /\ ret[t] = c /\ ptr[t] = a

\* The number of successful claims not yet released.
TotalClaims ==
    TotalHeld + Cardinality({t \in Threads : pc[t] = "done" /\ ret[t] # NoSlot})

\* C11 -- Table invariant: every occupied cell holds the address of an
\* unreleased claim on that cell, every unreleased claim has its address in
\* its cell, and the number of occupied cells is the number of unreleased
\* claims and at most len (so each occupied cell has exactly one claim).
C11_TableInvariant ==
    /\ \A c \in Occupied(slots) : \E t \in Threads : HasClaim(t, c, slots[c])
    /\ \A t \in Threads :
          /\ \A h \in BagToSet(held[t]) : slots[h[1]] = h[2]
          /\ (pc[t] = "done" /\ ret[t] # NoSlot) => slots[ret[t]] = ptr[t]
    /\ Cardinality(Occupied(slots)) = TotalClaims
    /\ Cardinality(Occupied(slots)) <= len

\* A full table on which one thread holds handles and another has a claim
\* it has not yet taken, of a different address.
C11_Witness ==
    /\ Full(slots)
    /\ \E t \in Threads, u \in Threads :
          /\ t # u
          /\ pc[t] = "done" /\ ret[t] # NoSlot
          /\ held[u] # EmptyBag
          /\ \E h \in BagToSet(held[u]) : h[2] # ptr[t]

\* C12 -- Read-only scan: a step of the writer (the start of a scan, the read
\* of a cell, the end of a scan) changes no cell, no offset and no handle; the
\* k-th read of a scan reports the value cell k-1 holds at that step, and a
\* value other than NONE is the address of an unreleased claim on that cell
\* (a handle held, or the result of a call not yet taken).
C12_ReadOnlyScan ==
    [][ /\ (wpc' # wpc \/ seen' # seen) =>
              /\ slots' = slots
              /\ offset' = offset
              /\ held' = held
        /\ (wpc = "scan" /\ seen' # seen) =>
              LET c == Len(seen)
              IN /\ seen' = Append(seen, slots[c])
                 /\ slots[c] # NONE => \E t \in Threads : HasClaim(t, c, slots[c])
      ]_vars

\* A scan that has read, in a cell other than the first, the address of a
\* call that has not yet returned, after reading NONE in the first cell.
C12_Witness ==
    /\ wpc = "scan"
    /\ Len(seen) >= 2
    /\ seen[1] = NONE
    /\ \E t \in Threads :
          /\ pc[t] = "done" /\ ret[t] = Len(seen) - 1
          /\ seen[Len(seen)] = ptr[t]

\* C13 as stated -- Cursor update: a get_debt call that has claimed cell i has
\* left the thread's offset at (i + 1) mod len, a value in 0..len-1.
C13_OffsetReduced ==
    \A t \in Threads :
        (pc[t] = "done" /\ ret[t] # NoSlot) =>
            /\ offset[t] = (ret[t] + 1) % len
            /\ offset[t] \in 0..(len - 1)

\* C13 amended -- Cursor update: a get_debt call that has claimed cell i (its
\* first and only successful compare_exchange) has left the thread's offset
\* at i + 1, a value in 1..len that is congruent to (i + 1) mod len.
C13_OffsetNext ==
    \A t \in Threads :
        (pc[t] = "done" /\ ret[t] # NoSlot) =>
            /\ offset[t] = ret[t] + 1
            /\ offset[t] \in 1..len
            /\ offset[t] % len = (ret[t] + 1) % len
            /\ tried[t][Len(tried[t])] = <<ret[t], NONE, ptr[t]>>
            /\ \A k \in 1..(Len(tried[t]) - 1) : tried[t][k][2] # NONE

\* A call that has claimed the last cell and left the offset at len.
C13_Witness ==
    \E t \in Threads :
        /\ pc[t] = "done" /\ ret[t] = len - 1
        /\ offset[t] = len

\* The first cell free in table s at or cyclically after position c, NoSlot
\* if s has no free cell: the sequential reference of a first-fit search.
FirstFree(s, c) ==
    LET ks == {k \in 0..(len - 1) : s[(c + k) % len] = NONE}
    IN IF ks = {} THEN NoSlot
       ELSE (c + (CHOOSE k \in ks : \A j \in ks : k <= j)) % len

\* No other thread has changed the table during the finished call of t:
\* every cell but the one it claimed has stayed free or stayed occupied.
Undisturbed(t) ==
    freeAll[t] \cup DOMAIN occSnap[t] \cup (IF ret[t] = NoSlot THEN {} ELSE {ret[t]}) = Cells

\* The table as it was when the undisturbed call of t started.
TableAtStart(t) ==
    [c \in Cells |-> IF c \in DOMAIN occSnap[t] THEN occSnap[t][c] ELSE NONE]

\* C14 -- Scan order and first-fit: a get_debt call that read offset c makes
\* its k-th attempt on cell (c + k - 1) mod len, at most len attempts on
\* pairwise distinct cells, all but a final successful one finding the cell
\* occupied; and when no other thread changed the table during the call, its
\* result is the first free cell at or cyclically after c of the table it
\* started on (None if there was none).
C14_FirstFit ==
    \A t \in Threads :
        InCall(t) =>
            LET q == tried[t] IN
            /\ Len(q) <= len
            /\ \A k \in 1..Len(q) : q[k][1] = (off0[t] + k - 1) % len
            /\ \A a \in 1..Len(q), b \in 1..Len(q) : a < b => q[a][1] # q[b][1]
            /\ \A k \in 1..(Len(q) - 1) : q[k][2] # NONE
            /\ pc[t] = "loop" => \A k \in 1..Len(q) : q[k][2] # NONE
            /\ (pc[t] = "done" /\ ret[t] # NoSlot) =>
                  q[Len(q)][1] = ret[t] /\ q[Len(q)][2] = NONE
            /\ (pc[t] = "done" /\ Undisturbed(t)) =>
                  ret[t] = FirstFree(TableAtStart(t), off0[t])

\* An undisturbed call that started past the middle of the table, found
\* cells occupied up to the end of the array and claimed a cell after
\* wrapping around to its start.
C14_Witness ==
    \E t \in Threads :
        /\ pc[t] = "done" /\ Undisturbed(t)
        /\ off0[t] > len \div 2
        /\ ret[t] # NoSlot /\ ret[t] < off0[t] % len
        /\ Len(tried[t]) >= 3
        /\ ret[t] = FirstFree(TableAtStart(t), off0[t])

\* C15 -- Per-cell transitions: a step that changes a cell either takes it
\* from NONE to the ptr of a get_debt call that succeeds at that step on that
\* cell, or takes it to NONE by the release of a handle on that cell whose
\* address the cell held; so no get_debt overwrites an occupied cell and an
\* address stays in its cell until its claim is released.
C15_CellTransitions ==
    [][ \A c \in Cells :
          slots'[c] # slots[c] =>
              \/ /\ slots[c] = NONE
                 /\ \E t \in Threads :
                       /\ pc[t] = "loop" /\ pc'[t] = "done"
                       /\ ret'[t] = c
                       /\ slots'[c] = ptr[t]
              \/ /\ slots'[c] = NONE
                 /\ \E t \in Threads :
                       /\ BagIn(<<c, slots[c]>>, held[t])
                       /\ held'[t] = held[t] (-) SetToBag({<<c, slots[c]>>})
      ]_vars

\* A call has failed on a cell that still holds the address it found there,
\* while another cell has been released and claimed again with a new address.
C15_Witness ==
    \E t \in Threads, c \in Cells :
        /\ pc[t] = "loop" /\ Len(tried[t]) >= 1
        /\ tried[t][1][2] # NONE
        /\ slots[tried[t][1][1]] = tried[t][1][2]
        /\ c < len - 1
        /\ slots[c] \notin {NONE, MaxAddr}

\* C16 -- Cursor isolation: the offset of a thread is 0 until a get_debt call
\* of that thread succeeds, and a step changes the offset of a thread only if
\* it is the successful compare_exchange of that thread's own call; a call
\* that ends in None, a release, a step of the writer's scan and the steps of
\* other threads leave it unchanged.
C16_CursorIsolation ==
    /\ [](\A t \in Threads : ~won[t] => offset[t] = 0)
    /\ [][ \A t \in Threads :
             offset'[t] # offset[t] =>
                 /\ pc[t] = "loop" /\ pc'[t] = "done"
                 /\ ret'[t] # NoSlot
                 /\ \A u \in Threads \ {t} : pc'[u] = pc[u] /\ offset'[u] = offset[u]
                 /\ wpc' = wpc /\ seen' = seen /\ held' = held
         ]_vars

\* A thread whose call has ended in None with its offset still 0, while the
\* writer is scanning and another thread's offset has moved from where it started.
C16_Witness ==
    \E t \in Threads, u \in Threads :
        /\ pc[t] = "done" /\ ret[t] = NoSlot
        /\ ~won[t] /\ offset[t] = 0
        /\ wpc = "scan" /\ Len(seen) >= 1
        /\ u # t /\ offset[u] = len

\* C17 -- release affects only its own cell: a step in which a thread gives
\* up a handle sets that handle's cell to NONE and changes no other cell, no
\* offset, no other thread's handles and no call in progress; and the cell of
\* a handle changes only in the step in which the holder itself releases it.
C17_ReleaseFrame ==
    [][ \A t \in Threads : \A h \in BagToSet(held[t]) :
          /\ ~BagIn(h, held'[t]) =>
                /\ slots' = [slots EXCEPT ![h[1]] = NONE]
                /\ offset' = offset
                /\ held' = [held EXCEPT ![t] = @ (-) SetToBag({h})]
                /\ pc' = pc /\ ret' = ret /\ ptr' = ptr
          /\ slots'[h[1]] # h[2] =>
                /\ ~BagIn(h, held'[t])
                /\ pc[t] = "idle"
      ]_vars

\* A thread has released its handle (it has succeeded before and holds
\* nothing) while another thread holds a handle on a later cell, whose
\* address is still in place.
C17_Witness ==
    \E t \in Threads, u \in Threads :
        /\ t # u
        /\ pc[t] = "idle" /\ won[t] /\ held[t] = EmptyBag
        /\ \E h \in BagToSet(held[u]) :
              /\ h[1] > 0 /\ slots[h[1]] = h[2]
              /\ slots[h[1] - 1] = NONE

\* C18 -- No out-of-range access: every offset is in 0..len, and for every
\* such offset and every value of the loop variable the index get_debt
\* computes is within the array, so no call ends in a panic.
C18_IndexInBounds ==
    \A t \in Threads :
        /\ pc[t] # "panic"
        /\ offset[t] \in 0..len
        /\ pc[t] = "loop" =>
              /\ i[t] \in LoopRange
              /\ InBounds(SlotIndex(i[t], offset[t]))
        /\ \A k \in 1..Len(tried[t]) : InBounds(tried[t][k][1])

\* A call that read the offset len (stored after a claim of the last cell)
\* is at the last step of its loop, where i + offset is largest.
C18_Witness ==
    \E t \in Threads :
        /\ pc[t] = "loop"
        /\ offset[t] = len
        /\ i[t] = len - 1
        /\ Len(tried[t]) = len - 1

\* C19 -- Cursor representation equivalence: in every state the table of the
\* reference run (offset stored as (claimed index + 1) mod len) equals the
\* table of the code's run, each thread's reference offset is the code's
\* offset reduced modulo len, and every finished call returns the same cell
\* (or None) in both.
C19_RefEquivalence ==
    /\ refSlots = slots
    /\ \A t \in Threads :
          /\ refOffset[t] \in 0..(len - 1)
          /\ refOffset[t] % len = offset[t] % len
          /\ pc[t] = "done" => refRet[t] = ret[t]

\* A call that read the offset len where the reference read 0, and claimed
\* the same cell in both runs.
C19_Witness ==
    \E t \in Threads :
        /\ pc[t] = "done"
        /\ off0[t] = len
        /\ ret[t] # NoSlot /\ refRet[t] = ret[t]
        /\ refOffset[t] # offset[t]
====
